---------------------------- MODULE Spec2Model ----------------------------
(***************************************************************************)
(* A model of pinobatch/bitmap-fonts: the bitmap font renderer             *)
(* (src/bmfontrender.py) and the word scorer (src/demowords.py).           *)
(*                                                                         *)
(* Python values are modelled as follows.  A list or a tuple is a          *)
(* sequence (index i of Python is index i+1 here), a string is a sequence  *)
(* of one-character strings, a set is a set, a dict is a function.  The    *)
(* result of a call that can return None or raise is a record              *)
(* [tag, val]: tag "value" carries the value in val, tag "None" is None,   *)
(* any other tag is the name of the exception the call raises.             *)
(***************************************************************************)
EXTENDS Integers, Sequences, FiniteSets, TLC

VARIABLES
    ranges,        \* PILtxt.ranges of the atlas under lookup
    cp,            \* the codepoint handed to cp_to_glyph
    glyph,         \* what cp_to_glyph(cp) did
    scanline,      \* the arguments of one vwfscan_line call
    slices,        \* what vwfscan_line returned
    chars,         \* the `chars` lines handed to parse_chars
    font,          \* the PILtxt atlas, as PILtxt(...) constructed it
    fontargs,      \* the arguments of the PILtxt constructor
    txt,           \* the line of text handed to text_size and textout
    size,          \* what text_size(txt) did
    at,            \* the (x, y) handed to textout
    box,           \* what textout(dst, txt, x, y) did
    app,           \* the App object: [font, bgcolor, previewimage]
    outcome,       \* how the last choose_font call ended
    wordlist,      \* the lines of the word list
    lettervalues,  \* the letter-value table in use
    wbs,           \* get_wordsbyscore's dict, then its items sorted
    rowid,         \* the row of wbs the output loop is at
    printed,       \* the score groups printed so far
    tokens,        \* the inclusive codepoint intervals `chars` was written from
    rangetoglyphid, \* what parse_chars returned
    pc             \* "call" before the operation at hand has run, "done" after

vars == <<ranges, cp, glyph, scanline, slices, chars, tokens, rangetoglyphid,
          font, fontargs, txt, size, at, box, app, outcome,
          wordlist, lettervalues, wbs, rowid, printed, pc>>

\* The value of a variable that the specification at hand does not use.
Unused == "-"

lookupVars == <<ranges, cp, glyph>>

scanVars == <<scanline, slices>>

charsVars == <<chars, tokens, rangetoglyphid>>

fontVars == <<font, fontargs, txt, size, at, box>>

appVars == <<app, outcome>>

UnusedApp == app = Unused /\ outcome = Unused

wordVars == <<wordlist, lettervalues, wbs, rowid, printed>>

UnusedWords ==
    /\ wordlist = Unused /\ lettervalues = Unused /\ wbs = Unused
    /\ rowid = Unused /\ printed = Unused

UnusedLookup == ranges = Unused /\ cp = Unused /\ glyph = Unused

UnusedScan == scanline = Unused /\ slices = Unused

UnusedChars == chars = Unused /\ tokens = Unused /\ rangetoglyphid = Unused

UnusedFont ==
    /\ font = Unused /\ fontargs = Unused /\ txt = Unused
    /\ size = Unused /\ at = Unused /\ box = Unused

\* The value of a result variable before the call has been made.
Pending == [tag |-> "pending", val |-> 0]

None == [tag |-> "None", val |-> 0]

Value(v) == [tag |-> "value", val |-> v]

Raise(exc) == [tag |-> exc, val |-> 0]

Min(a, b) == IF a < b THEN a ELSE b

Max(a, b) == IF a < b THEN b ELSE a

Reverse(s) == [i \in 1..Len(s) |-> s[Len(s) + 1 - i]]

(***************************************************************************)
(* Codepoint lookup: PILtxt.__init__ (the range table) and cp_to_glyph.    *)
(***************************************************************************)

\* Python's order on tuples of integers: lexicographic, a proper prefix first.
RECURSIVE TupleLess(_, _)
TupleLess(a, b) ==
    IF a = <<>> THEN b # <<>>
    ELSE IF b = <<>> THEN FALSE
    ELSE IF Head(a) # Head(b) THEN Head(a) < Head(b)
    ELSE TupleLess(Tail(a), Tail(b))

\* list.sort()/sorted() on a list of tuples: the stable ascending order.
RECURSIVE InsertSorted(_, _)
InsertSorted(s, e) ==
    IF s = <<>> THEN <<e>>
    ELSE IF TupleLess(e, Head(s)) THEN <<e>> \o s
    ELSE <<Head(s)>> \o InsertSorted(Tail(s), e)

RECURSIVE sorted(_)
sorted(s) ==
    IF s = <<>> THEN <<>>
    ELSE InsertSorted(sorted(SubSeq(s, 1, Len(s) - 1)), s[Len(s)])

\* bisect.bisect(a, x) with lo, hi the part of a still to search.
RECURSIVE bisect_from(_, _, _, _)
bisect_from(a, x, lo, hi) ==
    IF lo < hi
    THEN LET mid == (lo + hi) \div 2
         IN  IF TupleLess(x, a[mid + 1])
             THEN bisect_from(a, x, lo, mid)
             ELSE bisect_from(a, x, mid + 1, hi)
    ELSE lo

bisect(a, x) == bisect_from(a, x, 0, Len(a))

\* PILtxt.__init__, lines 130-136: an integer first codepoint becomes the one
\* range that covers num_glyphs codepoints; an iterable of ranges is sorted.
\* `given` is the constructor's argument: IntArg(n) is the integer n, on
\* which iter() raises TypeError, and ListArg(s) is the list s.
IntArg(n) == [iterable |-> FALSE, first |-> n, list |-> <<>>]

ListArg(s) == [iterable |-> TRUE, first |-> 0, list |-> s]

init_ranges(given, num_glyphs) ==
    IF ~given.iterable
    THEN <<  <<given.first, given.first + num_glyphs, 0>>  >>
    ELSE sorted(given.list)

\* cp_to_glyph stepping back to the previous range also when the range at idx
\* starts exactly at the codepoint (>= for > in line 156).
cp_to_glyph_stepback(rngs, c) ==
    LET idx0 == bisect(rngs, <<c, c>>)
        idx  == IF idx0 > 0 /\ (idx0 >= Len(rngs) \/ rngs[idx0 + 1][1] >= c)
                THEN idx0 - 1 ELSE idx0
    IN  IF idx >= Len(rngs) THEN Raise("IndexError")
        ELSE LET l == rngs[idx + 1][1]
                 h == rngs[idx + 1][2]
                 run_base_cp == rngs[idx + 1][3]
             IN  IF l <= c /\ c < h THEN Value((c - l) + run_base_cp) ELSE None

\* PILtxt.cp_to_glyph for an integer codepoint.
cp_to_glyph(rngs, c) ==
    LET idx0 == bisect(rngs, <<c, c>>)
        idx  == IF idx0 > 0 /\ (idx0 >= Len(rngs) \/ rngs[idx0 + 1][1] > c)
                THEN idx0 - 1 ELSE idx0
    IN  IF idx >= Len(rngs) THEN Raise("IndexError")   \* self.ranges[idx]
        ELSE LET l == rngs[idx + 1][1]
                 h == rngs[idx + 1][2]
                 run_base_cp == rngs[idx + 1][3]
             IN  IF l <= c /\ c < h THEN Value((c - l) + run_base_cp) ELSE None

\* PILtxt.__contains__: an exception of cp_to_glyph passes through.
contains(rngs, c) ==
    LET g == cp_to_glyph(rngs, c)
    IN  IF g.tag \in {"value", "None"} THEN Value(g # None) ELSE g

\* Bounds of the lookup model.
MaxCp == 5

MaxRanges == 3

MaxBase == 1

MaxGlyphs == 2

\* Sorted tables of at most k non-empty pairwise disjoint half-open ranges
\* (first CP, last CP + 1, first glyph index) within lo..MaxCp+1.
RECURSIVE Tables(_, _)
Tables(k, lo) ==
    {<<>>} \cup
    (IF k = 0 THEN {}
     ELSE UNION { UNION { { <<  <<f, l, b>>  >> \o t : t \in Tables(k - 1, l) } :
                          l \in (f + 1)..(MaxCp + 1), b \in 0..MaxBase } :
                  f \in lo..MaxCp })

LookupTables == Tables(MaxRanges, 1)

InitLookup ==
    /\ \/ \E t \in LookupTables : \E given \in {t, Reverse(t)} :
             ranges = init_ranges(ListArg(given), 0)
       \/ \E first \in 1..MaxCp, n \in 0..MaxGlyphs :
             ranges = init_ranges(IntArg(first), n)
    /\ cp \in 0..(MaxCp + 2)
    /\ glyph = Pending
    /\ pc = "call"
    /\ UnusedScan /\ UnusedChars /\ UnusedFont /\ UnusedApp /\ UnusedWords

Lookup ==
    /\ pc = "call"
    /\ pc' = "done"
    /\ glyph' = cp_to_glyph(ranges, cp)
    /\ UNCHANGED <<ranges, cp, scanVars, charsVars, fontVars, appVars, wordVars>>

SpecLookup == InitLookup /\ [][Lookup]_vars

\* Whether entry i of the table covers codepoint c.
Covers(rngs, i, c) == rngs[i][1] <= c /\ c < rngs[i][2]

\* Whether the table is sorted by first codepoint with disjoint ranges.
SortedDisjoint(rngs) ==
    \A i, j \in 1..Len(rngs) :
        i < j => rngs[i][1] <= rngs[j][1] /\ rngs[i][2] <= rngs[j][1]

\* C1: in a sorted table of pairwise disjoint ranges, a codepoint c covered
\* by an entry (first, last, base) is looked up as base + (c - first),
\* wherever the entry stands in the table and wherever c stands in the entry.
C1_CoveredLookup ==
    (pc = "done" /\ SortedDisjoint(ranges)) =>
        \A i \in 1..Len(ranges) :
            Covers(ranges, i, cp) =>
                glyph = Value(ranges[i][3] + (cp - ranges[i][1]))

\* A lookup of the last codepoint of the middle one of three ranges, which is
\* not the range's first codepoint, has been made.
C1_Witness ==
    /\ pc = "done"
    /\ Len(ranges) = 3
    /\ Covers(ranges, 2, cp)
    /\ cp = ranges[2][2] - 1
    /\ cp > ranges[2][1]
    /\ ranges[2][3] > 0

\* C2: a codepoint that no range of the table covers is looked up as None,
\* without an exception, whatever the length of the table.
C2_UncoveredIsNone ==
    (pc = "done" /\ \A i \in 1..Len(ranges) : ~Covers(ranges, i, cp)) =>
        glyph = None

(***************************************************************************)
(* Proportional glyph scanning: vwfscan_line.                              *)
(***************************************************************************)

\* A run of slices is (startX, None) while open and (startX, y, endX) once
\* closed; `slices[-1][1] is None` is the test for the two-element form.
OpenRun(x) == <<x, None>>

IsOpen(run) == Len(run) = 2

\* The forced split of line 88 with < for <=.
is_ending_late(is_active, is_opaque, startX, maxwidth, x) ==
    is_active /\ (~is_opaque \/ startX + maxwidth < x)

\* Lines 87-88.
is_ending(is_active, is_opaque, startX, maxwidth, x) ==
    is_active /\ (~is_opaque \/ startX + maxwidth <= x)

\* The body of the loop over x, lines 85-93, on the list s.
scan_column(s, row, y, maxwidth, sepColor, x) ==
    LET is_active == s # <<>> /\ IsOpen(s[Len(s)])
        is_opaque == row[x + 1] # sepColor
        ending == is_ending(is_active, is_opaque,
                            IF s = <<>> THEN 0 ELSE s[Len(s)][1], maxwidth, x)
        is_starting == is_opaque /\ (ending \/ ~is_active)
        s1 == IF ending
              THEN [s EXCEPT ![Len(s)] = <<s[Len(s)][1], y, x>>]
              ELSE s
    IN  IF is_starting THEN Append(s1, OpenRun(x)) ELSE s1

\* The loop of line 84 from column x on.
RECURSIVE scan_columns(_, _, _, _, _, _, _)
scan_columns(s, row, y, width, maxwidth, sepColor, x) ==
    IF x >= width THEN s
    ELSE scan_columns(scan_column(s, row, y, maxwidth, sepColor, x),
                      row, y, width, maxwidth, sepColor, x + 1)

\* vwfscan_line without lines 95-96.
vwfscan_line_noclose(row, y, width, maxwidth, sepColor) ==
    scan_columns(<<>>, row, y, width, maxwidth, sepColor, 0)

\* vwfscan_line; row is the scanline pxa[., y].
vwfscan_line(row, y, width, maxwidth, sepColor) ==
    LET s == scan_columns(<<>>, row, y, width, maxwidth, sepColor, 0)
    IN  IF s # <<>> /\ IsOpen(s[Len(s)])
        THEN [s EXCEPT ![Len(s)] = <<s[Len(s)][1], y, width>>]
        ELSE s

\* Bounds of the scan model.
MaxWidth == 10

MaxMaxwidth == 4

\* The rows of pixels of width w over the colours of a 1-bit image.
Rows(w) == [1..w -> {0, 255}]

InitScan ==
    /\ \E w \in 0..MaxWidth : \E row \in Rows(w) :
       \E mw \in 1..MaxMaxwidth, sep \in {0, 255}, yt \in {0, 8} :
          scanline = [row |-> row, y |-> yt, width |-> w,
                      maxwidth |-> mw, sepColor |-> sep]
    /\ slices = <<>>
    /\ pc = "call"
    /\ UnusedLookup /\ UnusedChars /\ UnusedFont /\ UnusedApp /\ UnusedWords

Scan ==
    /\ pc = "call"
    /\ pc' = "done"
    /\ slices' = vwfscan_line(scanline.row, scanline.y, scanline.width,
                              scanline.maxwidth, scanline.sepColor)
    /\ UNCHANGED <<lookupVars, scanline, charsVars, fontVars, appVars, wordVars>>

SpecScan == InitScan /\ [][Scan]_vars

\* Whether column x (from 0) of the scanned row is not separator-coloured.
Opaque(x) == scanline.row[x + 1] # scanline.sepColor

\* The runs of the result that column x lies in.
RunsAt(x) == { i \in 1..Len(slices) : slices[i][1] <= x /\ x < slices[i][3] }

\* C3: the result holds closed runs (startX, y, endX) only, within the line,
\* from left to right without overlap; every non-separator column lies in
\* exactly one run and no separator column in any; a line of separator
\* colour gives no run, and a run open at the last column ends at the width.
C3_RunsPartitionOpaque ==
    pc = "done" =>
        /\ \A i \in 1..Len(slices) :
              /\ Len(slices[i]) = 3
              /\ slices[i][2] = scanline.y
              /\ 0 <= slices[i][1]
              /\ slices[i][1] < slices[i][3]
              /\ slices[i][3] <= scanline.width
        /\ (\A i \in 1..Len(slices) : Len(slices[i]) = 3) =>
              /\ \A i \in 1..(Len(slices) - 1) : slices[i + 1][1] >= slices[i][3]
              /\ \A x \in 0..(scanline.width - 1) :
                    Cardinality(RunsAt(x)) = (IF Opaque(x) THEN 1 ELSE 0)
              /\ (\A x \in 0..(scanline.width - 1) : ~Opaque(x)) => slices = <<>>
              /\ (scanline.width > 0 /\ Opaque(scanline.width - 1)) =>
                    slices[Len(slices)][3] = scanline.width

\* A row whose last column is opaque, with a separator inside, was scanned.
C3_Witness ==
    /\ pc = "done"
    /\ scanline.width >= 4
    /\ Opaque(scanline.width - 1)
    /\ ~Opaque(1)
    /\ Opaque(0)
    /\ Len(slices) >= 2

\* Whether columns s..s+len-1 are a maximal stretch of opaque columns.
Stretch(s, len) ==
    /\ len >= 1
    /\ s + len <= scanline.width
    /\ \A x \in s..(s + len - 1) : Opaque(x)
    /\ s = 0 \/ ~Opaque(s - 1)
    /\ s + len = scanline.width \/ ~Opaque(s + len)

\* C4: no run is wider than maxwidth, and a maximal stretch of L opaque
\* columns from column s is cut into ceil(L / maxwidth) runs that start at
\* s, s + maxwidth, ..., each maxwidth wide except possibly the last.
C4_ForcedSplit ==
    pc = "done" =>
        /\ \A i \in 1..Len(slices) :
              slices[i][3] - slices[i][1] <= scanline.maxwidth
        /\ \A s \in 0..scanline.width, len \in 1..scanline.width :
              Stretch(s, len) =>
                LET mw == scanline.maxwidth
                    n == (len + mw - 1) \div mw
                    inside == { i \in 1..Len(slices) :
                                  s <= slices[i][1] /\ slices[i][1] < s + len }
                IN  /\ Cardinality(inside) = n
                    /\ \A k \in 0..(n - 1) :
                          \E i \in inside :
                             /\ slices[i][1] = s + k * mw
                             /\ slices[i][3] = Min(s + (k + 1) * mw, s + len)

\* The row of ten opaque columns was scanned with maxwidth 3 and gave the
\* runs (0,3), (3,6), (6,9), (9,10).
C4_Witness ==
    /\ pc = "done"
    /\ scanline.width = 10 /\ scanline.maxwidth = 3
    /\ \A x \in 0..9 : Opaque(x)
    /\ slices = << <<0, scanline.y, 3>>, <<3, scanline.y, 6>>,
                   <<6, scanline.y, 9>>, <<9, scanline.y, 10>> >>

(***************************************************************************)
(* Range table construction: PILtxt.parse_chars.                           *)
(***************************************************************************)

Whitespace == {" ", "\t", "\n", "\r", "\f"}

LowerHex == <<"0", "1", "2", "3", "4", "5", "6", "7", "8", "9",
              "a", "b", "c", "d", "e", "f">>

UpperHex == <<"0", "1", "2", "3", "4", "5", "6", "7", "8", "9",
              "A", "B", "C", "D", "E", "F">>

IsHexDigit(c) == \E i \in 1..16 : c = LowerHex[i] \/ c = UpperHex[i]

DigitValue(c) == (CHOOSE i \in 1..16 : c = LowerHex[i] \/ c = UpperHex[i]) - 1

\* str.strip()
RECURSIVE strip(_)
strip(s) ==
    IF s = <<>> THEN s
    ELSE IF Head(s) \in Whitespace THEN strip(Tail(s))
    ELSE IF s[Len(s)] \in Whitespace THEN strip(SubSeq(s, 1, Len(s) - 1))
    ELSE s

\* The index of the first sep in s, 0 when there is none.
Find(s, sep) ==
    IF \E i \in 1..Len(s) : s[i] = sep
    THEN CHOOSE i \in 1..Len(s) : s[i] = sep /\ \A j \in 1..(i - 1) : s[j] # sep
    ELSE 0

\* str.split(sep)
RECURSIVE split(_, _)
split(s, sep) ==
    LET i == Find(s, sep)
    IN  IF i = 0 THEN <<s>>
        ELSE <<SubSeq(s, 1, i - 1)>> \o split(SubSeq(s, i + 1, Len(s)), sep)

\* str.split(sep, 1)
split1(s, sep) ==
    LET i == Find(s, sep)
    IN  IF i = 0 THEN <<s>>
        ELSE <<SubSeq(s, 1, i - 1), SubSeq(s, i + 1, Len(s))>>

\* The value of a string of hex digits, most significant first.
RECURSIVE HexValue(_)
HexValue(s) ==
    IF s = <<>> THEN 0
    ELSE 16 * HexValue(SubSeq(s, 1, Len(s) - 1)) + DigitValue(s[Len(s)])

\* int(s, 16) on strings without underscores: surrounding whitespace, a sign
\* and a 0x prefix are accepted, then at least one hex digit must follow.
int16(s) ==
    LET t == strip(s)
        signed == t # <<>> /\ Head(t) \in {"+", "-"}
        u == IF signed THEN Tail(t) ELSE t
        prefixed == Len(u) >= 2 /\ u[1] = "0" /\ u[2] \in {"x", "X"}
        d == IF prefixed THEN SubSeq(u, 3, Len(u)) ELSE u
    IN  IF d # <<>> /\ \A i \in 1..Len(d) : IsHexDigit(d[i])
        THEN Value(IF signed /\ Head(t) = "-" THEN 0 - HexValue(d) ELSE HexValue(d))
        ELSE Raise("ValueError")

\* Lines 207-209: the tokens of all lines, each split once at "-".
RECURSIVE chars_tokens(_)
chars_tokens(lines) ==
    IF lines = <<>> THEN <<>>
    ELSE LET rs == split(Head(lines), ",")
         IN  [i \in 1..Len(rs) |-> split1(strip(rs[i]), "-")]
             \o chars_tokens(Tail(lines))

\* Lines 212-216 from token i on: the list so far and the running glyph index,
\* or the exception of int().
RECURSIVE chars_ranges(_, _, _, _)
chars_ranges(toks, i, acc, glyphidbase) ==
    IF i > Len(toks) THEN Value(acc)
    ELSE LET line == toks[i]
             first == int16(line[1])
             last == int16(line[Len(line)])
         IN  IF first.tag # "value" THEN first
             ELSE IF last.tag # "value" THEN last
             ELSE LET firstcp == first.val
                      lastcp == last.val + 1
                  IN  chars_ranges(toks, i + 1,
                                   Append(acc, <<firstcp, lastcp, glyphidbase>>),
                                   glyphidbase + (lastcp - firstcp))

\* The glyph index bases handed out again after sorting, in table order.
RECURSIVE Rebase(_, _)
Rebase(t, glyphidbase) ==
    IF t = <<>> THEN <<>>
    ELSE <<  <<t[1][1], t[1][2], glyphidbase>>  >>
         \o Rebase(Tail(t), glyphidbase + (t[1][2] - t[1][1]))

\* parse_chars numbering the glyphs in codepoint order, not file order.
parse_chars_cporder(lines) ==
    LET r == chars_ranges(chars_tokens(lines), 1, <<>>, 0)
    IN  IF r.tag = "value" THEN Value(Rebase(sorted(r.val), 0)) ELSE r

\* PILtxt.parse_chars
parse_chars(lines) ==
    LET r == chars_ranges(chars_tokens(lines), 1, <<>>, 0)
    IN  IF r.tag = "value" THEN Value(sorted(r.val)) ELSE r

\* Bounds of the parse_chars model: tokens lie in FirstTokenCp..LastTokenCp.
MaxTokens == 3

CpSpan == 5

\* The codepoints of the token model start at 0xE, so that tokens have one
\* and two hex digits, letters and numerals.
TokenCps == 14..(14 + CpSpan)

\* Sequences of at most k pairwise disjoint inclusive intervals <<first, last>>.
RECURSIVE TokenSeqs(_)
TokenSeqs(k) ==
    IF k = 0 THEN {<<>>}
    ELSE LET shorter == TokenSeqs(k - 1)
         IN  shorter \cup
             { Append(s, <<f, l>>) :
                 s \in { q \in shorter : Len(q) = k - 1 },
                 f \in TokenCps, l \in TokenCps }

DisjointTokens(s) ==
    /\ \A i \in 1..Len(s) : s[i][1] <= s[i][2]
    /\ \A i, j \in 1..Len(s) :
          i # j => (s[i][2] < s[j][1] \/ s[j][2] < s[i][1])

\* The hex numeral of n in the digits of `digits`, without leading zeros.
RECURSIVE Hex(_, _)
Hex(n, digits) ==
    IF n < 16 THEN <<digits[n + 1]>>
    ELSE Append(Hex(n \div 16, digits), digits[(n % 16) + 1])

\* A token as a descriptor writes it: "first-last", or "first" alone when
\* short is set and the interval is one codepoint.
TokenText(t, digits, short) ==
    IF short /\ t[1] = t[2] THEN Hex(t[1], digits)
    ELSE Hex(t[1], digits) \o <<"-">> \o Hex(t[2], digits)

\* All tokens on one line, separated by sep.
RECURSIVE JoinTokens(_, _, _, _)
JoinTokens(s, digits, short, sep) ==
    IF s = <<>> THEN <<>>
    ELSE IF Len(s) = 1 THEN TokenText(s[1], digits, short)
    ELSE TokenText(s[1], digits, short) \o sep
         \o JoinTokens(Tail(s), digits, short, sep)

\* The `chars` lines of a descriptor that lists the tokens s in this order.
CharsLines(s, digits, short, layout) ==
    CASE layout = "line each" ->
            [i \in 1..Len(s) |-> TokenText(s[i], digits, short)]
      [] layout = "one line" ->
            IF s = <<>> THEN <<>> ELSE <<JoinTokens(s, digits, short, <<",">>)>>
      [] layout = "spaced" ->
            IF s = <<>> THEN <<>>
            ELSE <<JoinTokens(s, digits, short, <<",", " ">>)>>

InitChars ==
    /\ tokens \in { s \in TokenSeqs(MaxTokens) : DisjointTokens(s) }
    /\ \E digits \in {LowerHex, UpperHex}, short \in BOOLEAN,
          layout \in {"line each", "one line", "spaced"} :
          chars = CharsLines(tokens, digits, short, layout)
    /\ rangetoglyphid = Pending
    /\ pc = "call"
    /\ UnusedLookup /\ UnusedScan /\ UnusedFont /\ UnusedApp /\ UnusedWords

ParseChars ==
    /\ pc = "call"
    /\ pc' = "done"
    /\ rangetoglyphid' = parse_chars(chars)
    /\ UNCHANGED <<lookupVars, scanVars, chars, tokens, fontVars, appVars, wordVars>>

SpecChars == InitChars /\ [][ParseChars]_vars

\* The number of codepoints of the tokens before token j, in file order.
RECURSIVE CountBefore(_, _)
CountBefore(s, j) ==
    IF j <= 1 THEN 0
    ELSE CountBefore(s, j - 1) + (s[j - 1][2] - s[j - 1][1] + 1)

\* The number of glyphs a table covers.
RECURSIVE GlyphCount(_)
GlyphCount(t) ==
    IF t = <<>> THEN 0 ELSE (t[1][2] - t[1][1]) + GlyphCount(Tail(t))

\* C5: for tokens that denote pairwise disjoint inclusive intervals, in any
\* file order, parse_chars returns a table sorted by first codepoint whose
\* glyph count is the sum of (last - first + 1) over the tokens, and looking
\* up the codepoints token by token in file order gives 0, 1, 2, ..., N-1.
C5_FileOrderGlyphs ==
    pc = "done" =>
        /\ rangetoglyphid.tag = "value"
        /\ rangetoglyphid.tag = "value" =>
            LET t == rangetoglyphid.val
            IN  /\ Len(t) = Len(tokens)
                /\ \A i \in 1..(Len(t) - 1) : t[i][1] < t[i + 1][1]
                /\ GlyphCount(t) = CountBefore(tokens, Len(tokens) + 1)
                /\ \A j \in 1..Len(tokens) :
                      \A c \in tokens[j][1]..tokens[j][2] :
                         cp_to_glyph(t, c) =
                            Value(CountBefore(tokens, j) + (c - tokens[j][1]))

\* Three tokens were parsed whose file order is not their codepoint order,
\* the first of them more than one codepoint long.
C5_Witness ==
    /\ pc = "done"
    /\ rangetoglyphid.tag = "value"
    /\ Len(tokens) = 3
    /\ tokens[1][1] > tokens[2][2]
    /\ tokens[3][1] > tokens[1][2]
    /\ tokens[1][2] > tokens[1][1]
    /\ Len(chars) = 1

(***************************************************************************)
(* The atlas: PILtxt.__init__, num_glyphs, text_size and textout.          *)
(*                                                                         *)
(* An image is [mode, size, rows]: rows[y + 1][x + 1] is the pixel pxa[x, y]. *)
(* A pixel is the tuple of its bands: <<v>> in a single-band image, a      *)
(* triple in an RGB image.  glyphWidth is None or Value(n).                *)
(***************************************************************************)

Magenta == <<255, 0, 255>>

Black == <<0, 0, 0>>

\* The larger of im.getextrema(): the greatest pixel of a single-band image.
MaxPixel(im) ==
    CHOOSE v \in { im.rows[y][x] : y \in 1..im.size[2], x \in 1..im.size[1] } :
        \A y \in 1..im.size[2], x \in 1..im.size[1] : im.rows[y][x][1] <= v[1]

\* Lines 117-120.
separator(im) == IF Len(im.mode) = 1 THEN MaxPixel(im) ELSE Magenta

\* Lines 124-125: the runs of the strips from row yt down.
RECURSIVE scan_strips(_, _, _, _, _)
scan_strips(im, yt, glyphHeight, maxWidth, sepColor) ==
    IF yt >= im.size[2] THEN <<>>
    ELSE vwfscan_line(im.rows[yt + 1], yt, im.size[1], maxWidth, sepColor)
         \o scan_strips(im, yt + glyphHeight, glyphHeight, maxWidth, sepColor)

\* Python's truth value of self.vwf_table: neither None nor an empty list.
Truthy(vwf_table) == vwf_table.tag = "value" /\ vwf_table.val # <<>>

\* PILtxt.num_glyphs
num_glyphs(vwf_table, im, cw, ch) ==
    IF Truthy(vwf_table) THEN Value(Len(vwf_table.val))
    ELSE IF cw = None THEN Raise("TypeError")      \* int // None
    ELSE Value((im.size[1] \div cw.val) * (im.size[2] \div ch))

\* PILtxt.__init__: the atlas, or the exception of num_glyphs.
PILtxt(im, glyphWidth, glyphHeight, maxWidth, given) ==
    LET vwf_table ==
            IF glyphWidth = None
            THEN Value(scan_strips(im, 0, glyphHeight, maxWidth, separator(im)))
            ELSE None
        n == IF given.iterable THEN Value(0)
             ELSE num_glyphs(vwf_table, im, glyphWidth, glyphHeight)
    IN  IF n.tag # "value" THEN n
        ELSE Value([img |-> im, cw |-> glyphWidth, ch |-> glyphHeight,
                    vwf_table |-> vwf_table,
                    ranges |-> init_ranges(given, n.val)])

\* [self.cp_to_glyph(c) or 0 for c in txt]: the glyph indices, or the first
\* exception of a lookup.
glyph_ids(self, t) ==
    LET g == [i \in 1..Len(t) |-> cp_to_glyph(self.ranges, t[i])]
        raising == { i \in 1..Len(t) : g[i].tag \notin {"value", "None"} }
    IN  IF raising # {} THEN g[CHOOSE i \in raising : \A j \in raising : i <= j]
        ELSE Value([i \in 1..Len(t) |-> IF g[i] = None THEN 0 ELSE g[i].val])

MaxOf(s) ==
    CHOOSE m \in { s[i] : i \in 1..Len(s) } : \A i \in 1..Len(s) : s[i] <= m

\* Lines 178-180.
RECURSIVE vwf_width(_, _)
vwf_width(vwf, txt1) ==
    IF txt1 = <<>> THEN 0
    ELSE (vwf[Head(txt1) + 1][3] - vwf[Head(txt1) + 1][1]) + vwf_width(vwf, Tail(txt1))

\* PILtxt.text_size: Value(<<w, h>>), or the exception; the IndexError of
\* line 173 carries the glyph index and the table length of its message.
text_size(self, t) ==
    LET ids == glyph_ids(self, t)
    IN  IF ids.tag # "value" THEN ids
        ELSE LET txt1 == ids.val
             IN  IF txt1 = <<>> THEN Value(<<0, self.ch>>)
                 ELSE IF Truthy(self.vwf_table)
                 THEN IF MaxOf(txt1) >= Len(self.vwf_table.val)
                      THEN [tag |-> "IndexError",
                            val |-> <<MaxOf(txt1), Len(self.vwf_table.val)>>]
                      ELSE Value(<<vwf_width(self.vwf_table.val, txt1), self.ch>>)
                 ELSE IF self.cw = None THEN Raise("TypeError")  \* 0 + None
                 ELSE Value(<<self.cw.val * Len(txt1), self.ch>>)

\* The loop of lines 191-202 over the glyph indices still to draw: the
\* pastes made so far and the cursor, or the exception.
RECURSIVE draw_glyphs(_, _, _, _, _, _)
draw_glyphs(self, txt1, rowsz, pasted, x, y) ==
    IF txt1 = <<>> THEN [tag |-> "value", val |-> x, dst |-> pasted]
    ELSE LET c == Head(txt1)
         IN  IF Truthy(self.vwf_table)
             THEN IF c >= Len(self.vwf_table.val)
                  THEN [tag |-> "IndexError", val |-> 0, dst |-> pasted]
                  ELSE LET g == self.vwf_table.val[c + 1]
                       IN  draw_glyphs(self, Tail(txt1), rowsz,
                              Append(pasted, [src |-> <<g[1], g[2], g[3], g[2] + self.ch>>,
                                              at |-> <<x, y>>]),
                              x + (g[3] - g[1]), y)
             ELSE IF rowsz = 0
             THEN [tag |-> "ZeroDivisionError", val |-> 0, dst |-> pasted]
             ELSE LET t == (c \div rowsz) * self.ch
                      l == (c % rowsz) * self.cw.val
                      r == l + self.cw.val
                  IN  IF t >= self.img.size[2]
                      THEN draw_glyphs(self, Tail(txt1), rowsz, pasted, x, y)
                      ELSE draw_glyphs(self, Tail(txt1), rowsz,
                              Append(pasted, [src |-> <<l, t, r, t + self.ch>>,
                                              at |-> <<x, y>>]),
                              x + (r - l), y)

\* PILtxt.textout on an untouched surface: [tag, val, dst] with val the box
\* returned and dst the pastes made on dstSurface, in order.
textout(self, t, x, y) ==
    LET ids == glyph_ids(self, t)
    IN  IF ids.tag # "value" THEN [tag |-> ids.tag, val |-> 0, dst |-> <<>>]
        ELSE IF ~Truthy(self.vwf_table) /\ self.cw = None
        THEN [tag |-> "TypeError", val |-> 0, dst |-> <<>>]   \* int // None
        ELSE LET rowsz == IF Truthy(self.vwf_table) THEN 0
                          ELSE self.img.size[1] \div self.cw.val
                 d == draw_glyphs(self, ids.val, rowsz, <<>>, x, y)
             IN  IF d.tag # "value" THEN d
                 ELSE [tag |-> "value", val |-> <<x, y, d.val, y + self.ch>>,
                       dst |-> d.dst]

\* Bounds of the atlas model.
MaxImgW == 2

MaxTxt == 2

\* The images w wide and h high whose strips of glyphHeight rows start with
\* any row of the two colours and are background below it.
Images(mode, w, h, glyphHeight, sep, bg) ==
    { [mode |-> mode, size |-> <<w, h>>,
       rows |-> [y \in 1..h |-> IF (y - 1) % glyphHeight = 0
                                THEN top[((y - 1) \div glyphHeight) + 1]
                                ELSE [x \in 1..w |-> bg]]] :
      top \in [1..(((h - 1) \div glyphHeight) + 1) -> [1..w -> {sep, bg}]] }

\* A blank single-band image.
Blank(w, h) == [mode |-> "1", size |-> <<w, h>>,
                rows |-> [y \in 1..h |-> [x \in 1..w |-> <<0>>]]]

\* The ranges arguments of the atlas model: a first codepoint, one range, and
\* two ranges whose glyph indices leave gaps.
FontRanges ==
    { IntArg(1),
      ListArg(<<  <<1, 4, 0>>  >>),
      ListArg(<<  <<3, 4, 0>>, <<1, 2, 2>>  >>) }

\* The codepoints of the texts: 0 has no glyph in any of FontRanges.
TxtCps == {0, 1, 3}

RECURSIVE Texts(_)
Texts(n) ==
    IF n = 0 THEN {<<>>}
    ELSE LET shorter == Texts(n - 1)
         IN  shorter \cup { Append(t, c) : t \in shorter, c \in TxtCps }

\* The arguments of a proportional atlas: glyphWidth None, maxWidth 1 or the
\* image width (the default of fromfonifile).
ProportionalArgs ==
    UNION { { [im |-> i, glyphWidth |-> None, glyphHeight |-> gh,
               maxWidth |-> mw, ranges |-> r] :
                i \in Images("1", w, h, gh, <<255>>, <<0>>)
                      \cup Images("RGB", w, h, gh, Magenta, Black),
                mw \in {1, w}, r \in FontRanges } :
            w \in 1..MaxImgW, h \in {1, 2}, gh \in {1, 2} }

\* The arguments of a monospace atlas; its pixels are never read.
MonospaceArgs ==
    { [im |-> Blank(w, h), glyphWidth |-> Value(gw), glyphHeight |-> gh,
       maxWidth |-> w, ranges |-> r] :
        w \in 1..MaxImgW, h \in {1, 2}, gw \in 1..(MaxImgW + 1), gh \in {1, 2},
        r \in FontRanges }

InitFont ==
    /\ fontargs \in ProportionalArgs \cup MonospaceArgs
    /\ txt \in Texts(MaxTxt)
    /\ font = Pending /\ size = Pending /\ box = Pending /\ at = <<0, 0>>
    /\ pc = "new"
    /\ UnusedLookup /\ UnusedScan /\ UnusedChars /\ UnusedApp /\ UnusedWords

\* font = PILtxt(im, glyphWidth, glyphHeight, maxWidth, ranges)
New ==
    /\ pc = "new"
    /\ font' = PILtxt(fontargs.im, fontargs.glyphWidth, fontargs.glyphHeight,
                      fontargs.maxWidth, fontargs.ranges)
    /\ pc' = IF font'.tag = "value" THEN "ready" ELSE "failed"
    /\ UNCHANGED <<fontargs, txt, size, box, at, lookupVars, scanVars, charsVars, appVars, wordVars>>

\* font.text_size(txt)
TextSize ==
    /\ pc = "ready" /\ size = Pending
    /\ size' = text_size(font.val, txt)
    /\ UNCHANGED <<font, fontargs, txt, box, at, pc, lookupVars, scanVars, charsVars, appVars, wordVars>>

\* font.textout(dst, txt, x, y)
TextOut ==
    /\ pc = "ready" /\ box = Pending
    /\ at' \in {<<0, 0>>, <<3, 5>>}
    /\ box' = textout(font.val, txt, at'[1], at'[2])
    /\ UNCHANGED <<font, fontargs, txt, size, pc, lookupVars, scanVars, charsVars, appVars, wordVars>>

SpecFont == InitFont /\ [][New \/ TextSize \/ TextOut]_vars

\* Whether the atlas is proportional: glyphWidth was None.
Proportional == font.tag = "value" /\ font.val.cw = None

\* C6: on a proportional atlas, whatever the number of runs its scan found,
\* text_size of a non-empty text with a character whose glyph index
\* (0 for an unmapped codepoint) is at least the table's length raises the
\* IndexError that names that index and the table's length.
C6_IndexErrorBeyondTable ==
    (pc = "ready" /\ size # Pending /\ Proportional /\ txt # <<>>
        /\ glyph_ids(font.val, txt).tag = "value"
        /\ MaxOf(glyph_ids(font.val, txt).val) >= Len(font.val.vwf_table.val)) =>
        /\ size.tag = "IndexError"
        /\ size.val = <<MaxOf(glyph_ids(font.val, txt).val),
                        Len(font.val.vwf_table.val)>>

\* C10: when text_size returns (w, h) and textout at (x, y) returns a box,
\* the box is (x, y, x + w, y + h) and h is glyphHeight.
C10_SizeMatchesBox ==
    (pc = "ready" /\ size # Pending /\ box # Pending
        /\ size.tag = "value" /\ box.tag = "value") =>
        /\ box.val[1] = at[1]
        /\ box.val[2] = at[2]
        /\ box.val[3] - box.val[1] = size.val[1]
        /\ box.val[4] - box.val[2] = size.val[2]
        /\ size.val[2] = font.val.ch

(***************************************************************************)
(* The application: parse_color, PILtxt.fromfonifile, App.render_text and  *)
(* App.choose_font.                                                        *)
(***************************************************************************)

\* parse_color: colorRE is '#' and hex digits to the end of the string (or
\* to a newline that ends it).
parse_color(s) ==
    LET body == IF s # <<>> /\ s[Len(s)] = "\n" THEN SubSeq(s, 1, Len(s) - 1) ELSE s
        hexdigits == IF body = <<>> THEN <<>> ELSE Tail(body)
    IN  IF body # <<>> /\ Head(body) = "#" /\ hexdigits # <<>>
           /\ \A i \in 1..Len(hexdigits) : IsHexDigit(hexdigits[i])
        THEN IF Len(hexdigits) = 3
             THEN Value([i \in 1..3 |-> DigitValue(hexdigits[i]) * 17])
             ELSE IF Len(hexdigits) = 6
             THEN Value([i \in 1..3 |-> HexValue(SubSeq(hexdigits, 2 * i - 1, 2 * i))])
             ELSE None
        ELSE None

\* PILtxt.fromfonifile from line 230 on, with parsed the result of parse_chars
\* at line 229: Value(font) or the exception.
open_atlas(args, parsed) ==
    IF parsed.tag # "value" THEN parsed
    ELSE IF args.image = None THEN Raise("KeyError")
    ELSE IF ~args.image.val.decodes THEN Raise("OSError")
    ELSE IF args.height = None THEN Raise("KeyError")
    ELSE PILtxt(args.image.val.im, args.width, args.height.val,
                IF args.maxwidth = None THEN args.image.val.im.size[1]
                ELSE args.maxwidth.val,
                IF parsed.val # <<>> THEN ListArg(parsed.val)
                ELSE IF args.firstcp = None THEN IntArg(32)
                ELSE IntArg(args.firstcp.val))

\* PILtxt.fromfonifile from line 229 on.  args is the dict of the descriptor:
\* chars the values of its chars lines, and image, height, width, firstcp,
\* maxwidth each None for a key that is missing; the image file is
\* [decodes, im].
fromfonifile(args) == open_atlas(args, parse_chars(args.chars))

\* text.split('\n') of a text of codepoints; 10 is the line feed.
RECURSIVE split_lines(_)
split_lines(text) ==
    LET i == Find(text, 10)
    IN  IF i = 0 THEN <<text>>
        ELSE <<SubSeq(text, 1, i - 1)>> \o split_lines(SubSeq(text, i + 1, Len(text)))

\* One element of the list of line 297 before the later ones.
cons_box(b, rest) ==
    IF b.tag # "value" THEN b
    ELSE IF rest.tag # "value" THEN rest
    ELSE Value(<<b.val>> \o rest.val)

\* Line 297: the boxes of the lines, or the first exception of text_size.
RECURSIVE line_boxes(_, _)
line_boxes(self, lines) ==
    IF lines = <<>> THEN Value(<<>>)
    ELSE cons_box(text_size(self, Head(lines)), line_boxes(self, Tail(lines)))

RECURSIVE SumHeights(_)
SumHeights(boxes) ==
    IF boxes = <<>> THEN 0 ELSE boxes[1][2] + SumHeights(Tail(boxes))

\* Lines 301-304 from line i on: the pastes on im, or the exception.  d is
\* what textout did with line i.
RECURSIVE draw_lines(_, _, _, _, _, _)
draw_line(self, lines, boxes, i, y, pasted, d) ==
    IF d.tag # "value" THEN Raise(d.tag)
    ELSE draw_lines(self, lines, boxes, i + 1, y + boxes[i][2], pasted \o d.dst)

draw_lines(self, lines, boxes, i, y, pasted) ==
    IF i > Len(lines) THEN Value(pasted)
    ELSE draw_line(self, lines, boxes, i, y, pasted, textout(self, lines[i], 0, y))

\* Line 305: the image returned, [size, color, pasted].
rendered(self_bgcolor, boxes, drawn) ==
    IF drawn.tag # "value" THEN drawn
    ELSE Value([size |-> <<MaxOf([i \in 1..Len(boxes) |-> boxes[i][1]]),
                           SumHeights(boxes)>>,
                color |-> self_bgcolor, pasted |-> drawn.val])

\* Lines 298-305 with the boxes of line 297.
render_lines(self_font, self_bgcolor, lines, boxes) ==
    IF boxes.tag # "value" THEN Raise(boxes.tag)
    ELSE rendered(self_bgcolor, boxes.val,
                  draw_lines(self_font, lines, boxes.val, 1, 0, <<>>))

\* App.render_text with self.font and self.bgcolor: Value(image) or the
\* exception.
render_text(self_font, self_bgcolor, text) ==
    render_lines(self_font, self_bgcolor, split_lines(text),
                 line_boxes(self_font, split_lines(text)))

\* 'A quick brown fox'
SampleText == <<65, 32, 113, 117, 105, 99, 107, 32, 98, 114, 111, 119, 110,
                32, 102, 111, 120>>

\* str.upper() on ASCII codepoints.
upper(text) ==
    [i \in 1..Len(text) |-> IF text[i] >= 97 /\ text[i] <= 122
                            THEN text[i] - 32 ELSE text[i]]

\* Image.new('1', (128, 16)), line 258.
FirstPreview == [size |-> <<128, 16>>, color |-> <<0, 0, 0>>, pasted |-> <<>>]

\* Lines 370-373 with im the result of render_text: the App's fields after
\* the call and how the try block ended ("ok" or the exception caught).
show_preview(assigned, im) ==
    IF im.tag # "value" THEN [app |-> assigned, outcome |-> im.tag]
    ELSE [app |-> [assigned EXCEPT !.previewimage = im.val], outcome |-> "ok"]

\* Lines 365-368 with has_r the result of 'r' in self.font.
sample_preview(self_font, self_bgcolor, has_r) ==
    IF has_r.tag # "value" THEN has_r
    ELSE render_text(self_font, self_bgcolor,
                     IF has_r.val THEN SampleText ELSE upper(SampleText))

\* Lines 359-373 with loaded the result of line 358 and bgcolor that of
\* parse_color.
set_font(self, loaded, bgcolor) ==
    IF loaded.tag # "value" THEN [app |-> self, outcome |-> loaded.tag]
    ELSE IF bgcolor = None THEN [app |-> self, outcome |-> "ValueError"]
    ELSE show_preview([self EXCEPT !.font = loaded, !.bgcolor = bgcolor],
                      sample_preview(loaded.val, bgcolor.val,
                                     contains(loaded.val.ranges, 114)))

\* App.choose_font after a file was chosen, lines 357-373.
choose_font(self, args) ==
    set_font(self, fromfonifile(args),
             parse_color(IF args.bgcolor = None
                         THEN <<"#", "0", "0", "0", "0", "0", "0">>
                         ELSE args.bgcolor.val))

\* The strings of the descriptors.
Str41 == <<"4", "1">>

Str41to5A == <<"4", "1", "-", "5", "A">>

Str61to7A == <<"6", "1", "-", "7", "a">>

StrWhite == <<"#", "F", "F", "F">>

StrRed == <<"r", "e", "d">>

StrFourDigits == <<"#", "1", "2", "3", "4">>

\* An RGB atlas of two glyphs, and one that is separator colour throughout.
TwoGlyphs == [mode |-> "RGB", size |-> <<3, 1>>,
              rows |-> << <<Black, Magenta, Black>> >>]

NoGlyphs == [mode |-> "RGB", size |-> <<1, 1>>, rows |-> << <<Magenta>> >>]

ImageFile(im) == Value([decodes |-> TRUE, im |-> im])

\* Descriptors that name a decodable image and a height.
CompleteDescriptors ==
    { [chars |-> c, image |-> ImageFile(i), height |-> Value(1), width |-> w,
       firstcp |-> None, maxwidth |-> None, bgcolor |-> b] :
        c \in {<<>>, <<Str41>>, <<Str41to5A>>, <<Str61to7A>>},
        i \in {TwoGlyphs, NoGlyphs},
        w \in {None, Value(1), Value(4)},
        b \in {None, Value(StrWhite)} }

\* One complete descriptor, and what a malformed descriptor makes of it.
Plain == [chars |-> <<Str41>>, image |-> ImageFile(TwoGlyphs),
          height |-> Value(1), width |-> None, firstcp |-> None,
          maxwidth |-> None, bgcolor |-> None]

MalformedDescriptors ==
    { [Plain EXCEPT !.image = None],
      [Plain EXCEPT !.image = Value([decodes |-> FALSE, im |-> TwoGlyphs])],
      [Plain EXCEPT !.height = None],
      [Plain EXCEPT !.bgcolor = Value(StrRed)],
      [Plain EXCEPT !.bgcolor = Value(StrFourDigits)],
      [Plain EXCEPT !.chars = <<StrRed>>] }

Descriptors == CompleteDescriptors \cup MalformedDescriptors

InitApp ==
    /\ app = [font |-> None, bgcolor |-> None, previewimage |-> FirstPreview]
    /\ outcome = "none"
    /\ pc = "mainloop"
    /\ UnusedLookup /\ UnusedScan /\ UnusedChars /\ UnusedFont /\ UnusedWords

\* The Font menu command with a descriptor file chosen in the dialog.
ChooseFont ==
    /\ pc = "mainloop"
    /\ \E args \in Descriptors :
          LET r == choose_font(app, args)
          IN  app' = r.app /\ outcome' = r.outcome
    /\ UNCHANGED <<pc, lookupVars, scanVars, charsVars, fontVars, wordVars>>

\* The Font menu command with the dialog cancelled, line 356.
CancelFont ==
    /\ pc = "mainloop"
    /\ outcome' = "cancel"
    /\ UNCHANGED <<app, pc, lookupVars, scanVars, charsVars, fontVars, wordVars>>

SpecApp == InitApp /\ [][ChooseFont \/ CancelFont]_vars

\* C7: a choose_font call that ends in an exception caught by its handler
\* leaves App.font, App.bgcolor and App.previewimage as they were.
C7_FailedLoadKeepsState ==
    [][outcome' \in {"KeyError", "ValueError", "OSError", "IndexError"}
         => app' = app]_vars

(***************************************************************************)
(* The word scorer: get_wordsbyscore and the output loop of demowords.py.  *)
(***************************************************************************)

\* set(word)
wordchars(word) == { word[i] : i \in 1..Len(word) }

\* The score with one term for every occurrence of a letter in the word.
RECURSIVE word_score_peroccurrence(_, _)
word_score_peroccurrence(word, rows) ==
    IF rows = <<>> THEN 0
    ELSE Cardinality({ i \in 1..Len(word) : word[i] = rows[1][1] }) * rows[1][2]
         + word_score_peroccurrence(word, Tail(rows))

\* Line 11: sum(row[1] for row in lettervalues if row[0] in wordchars)
RECURSIVE word_score(_, _)
word_score(word, rows) ==
    IF rows = <<>> THEN 0
    ELSE (IF rows[1][1] \in wordchars(word) THEN rows[1][2] ELSE 0)
         + word_score(word, Tail(rows))

\* get_wordsbyscore: the defaultdict(set) after the loop of lines 8-12 has
\* added every stripped word to the set of its score.
get_wordsbyscore(words, rows) ==
    LET stripped == { strip(words[i]) : i \in 1..Len(words) }
        scores == { word_score(w, rows) : w \in stripped }
    IN  [score \in scores |-> { w \in stripped : word_score(w, rows) = score }]

\* Lines 18-24.
insularvalues == << <<"a", 1>>, <<"d", 2>>, <<"f", 2>>, <<"g", 2>>,
                   <<"l", 1>>, <<"r", 1>>, <<"t", 2>>, <<"v", 1>> >>

uv_values == << <<"u", 1>>, <<"v", 1>> >>

\* Bound of the scorer model.
MaxWords == 3

\* Lines of a word list: repeated letters, two orders of the same letters,
\* a letter outside the tables, surrounding whitespace and an empty line.
Vocabulary ==
    { <<"a">>, <<"a", "a", "a">>, <<"a", "b">>, <<"b", "a", "\n">>, <<"c">>,
      <<" ", "a", "\n">>, <<"\n">>, <<"u", "v", "u", "\n">> }

RECURSIVE WordLists(_)
WordLists(n) ==
    IF n = 0 THEN {<<>>}
    ELSE LET shorter == WordLists(n - 1)
         IN  shorter \cup { Append(l, w) : l \in shorter, w \in Vocabulary }

\* Tables: that of the spec's example, one with a negative weight, one with
\* a letter twice, the empty one, and the two of the script.
ScoreTables ==
    { << <<"a", 1>>, <<"b", 2>> >>, << <<"a", 1>>, <<"b", 0 - 1>> >>,
      << <<"a", 1>>, <<"a", 2>> >>, <<>>, insularvalues, uv_values }

InitScore ==
    /\ wordlist \in WordLists(MaxWords)
    /\ lettervalues \in ScoreTables
    /\ wbs = <<>> /\ rowid = 0 /\ printed = <<>>
    /\ pc = "call"
    /\ UnusedLookup /\ UnusedScan /\ UnusedChars /\ UnusedFont /\ UnusedApp

Score ==
    /\ pc = "call"
    /\ pc' = "done"
    /\ wbs' = get_wordsbyscore(wordlist, lettervalues)
    /\ UNCHANGED <<wordlist, lettervalues, rowid, printed,
                   lookupVars, scanVars, charsVars, fontVars, appVars>>

SpecScore == InitScore /\ [][Score]_vars

\* The whitespace-trimmed words of the list.
Trimmed == { strip(wordlist[i]) : i \in 1..Len(wordlist) }

\* The sum of the weights of the table entries whose letter occurs in w.
RECURSIVE WeightOf(_, _)
WeightOf(w, i) ==
    IF i > Len(lettervalues) THEN 0
    ELSE (IF \E k \in 1..Len(w) : w[k] = lettervalues[i][1]
          THEN lettervalues[i][2] ELSE 0) + WeightOf(w, i + 1)

\* C8: every trimmed word is in the group of the sum of the weights of the
\* table entries whose letter occurs in it and in no other group, words with
\* the same distinct characters score alike, no group is empty, and the
\* groups together hold exactly the trimmed words.
C8_GroupsByLetterSet ==
    pc = "done" =>
        /\ \A w \in Trimmed :
              /\ WeightOf(w, 1) \in DOMAIN wbs
              /\ \A k \in DOMAIN wbs : (w \in wbs[k]) <=> (k = WeightOf(w, 1))
        /\ \A v, w \in Trimmed :
              wordchars(v) = wordchars(w) =>
                 \A k \in DOMAIN wbs : (v \in wbs[k]) <=> (w \in wbs[k])
        /\ \A k \in DOMAIN wbs : wbs[k] # {}
        /\ UNION { wbs[k] : k \in DOMAIN wbs } = Trimmed

\* The list "ab", "a", "c" was scored with the table a = 1, b = 2.
C8_Witness ==
    /\ pc = "done"
    /\ lettervalues = << <<"a", 1>>, <<"b", 2>> >>
    /\ wordlist = << <<"a", "b">>, <<"a">>, <<"c">> >>
    /\ DOMAIN wbs = {0, 1, 3}
    /\ wbs[3] = { <<"a", "b">> } /\ wbs[1] = { <<"a">> } /\ wbs[0] = { <<"c">> }

(***************************************************************************)
(* The output loop of demowords.py, lines 32-40.                           *)
(***************************************************************************)

\* Lines 25-28.
valueslists == << <<"Insular", insularvalues>>, <<"U and V", uv_values>> >>

\* Line 36: a group after the first is skipped when it has more words.
SuppressAbove == 100

\* Line 40: scorewords[:100]
ListAtMost == 100

\* sorted(wbs.items(), reverse=True): the items (score, words) by falling
\* score; the scores of a dict differ, so the sets are never compared.
RECURSIVE sorted_items(_, _)
sorted_items(d, keys) ==
    IF keys = {} THEN <<>>
    ELSE LET top == CHOOSE k \in keys : \A j \in keys : j <= k
         IN  <<  <<top, d[top]>>  >> \o sorted_items(d, keys \ {top})

\* A set as a list, in the order in which Python happens to iterate it.
RECURSIVE SetToSeq(_)
SetToSeq(S) ==
    IF S = {} THEN <<>>
    ELSE LET x == CHOOSE x \in S : TRUE
         IN  <<x>> \o SetToSeq(S \ {x})

\* sorted(scorewords, key=len) from length n on: the sort is stable, so words
\* of one length keep the set's order.
RECURSIVE by_length(_, _)
by_length(S, n) ==
    IF S = {} THEN <<>>
    ELSE LET same == { w \in S : Len(w) = n }
         IN  SetToSeq(same) \o by_length(S \ same, n + 1)

\* The test of line 36 applied to the first row as well.
is_skipped_any_row(row, scorewords) == Cardinality(scorewords) > SuppressAbove

\* Line 36: if rowid > 0 and len(scorewords) > 100: continue
is_skipped(row, scorewords) == row > 0 /\ Cardinality(scorewords) > SuppressAbove

\* Lines 37-40: what is printed for a group.
printed_row(lsname, score, scorewords) ==
    LET words == by_length(scorewords, 0)
    IN  [name |-> lsname, score |-> score, count |-> Len(words),
         words_pl |-> IF Cardinality(scorewords) > 1 THEN "words" ELSE "word",
         listed |-> SubSeq(words, 1, Min(ListAtMost, Len(words)))]

\* The k-th of the words made of the letters x and y, by length: the empty
\* word, x, y, xx, xy, ...
RECURSIVE Filler(_)
Filler(k) ==
    IF k = 0 THEN <<>>
    ELSE Append(Filler((k - 1) \div 2), IF k % 2 = 1 THEN "x" ELSE "y")

\* n lines of a word list: n different words that start with prefix.
WordLines(prefix, n) == [k \in 1..n |-> prefix \o Filler(k - 1) \o <<"\n">>]

\* The sizes of the groups of the word lists: none, one, at, just above and
\* well above the limit of 100.
GroupSizes == {0, 1, 100, 101, 150}

InitPrint ==
    /\ \E n1 \in GroupSizes, n2 \in GroupSizes, n3 \in GroupSizes :
          wordlist = WordLines(<<"u">>, n1) \o WordLines(<<"d">>, n3)
                     \o WordLines(<<"u", "v">>, n2)
    /\ lettervalues = 0
    /\ wbs = <<>> /\ rowid = 0 /\ printed = <<>>
    /\ pc = "lists"
    /\ UnusedLookup /\ UnusedScan /\ UnusedChars /\ UnusedFont /\ UnusedApp

\* Lines 32-34: the next table of valueslists; lettervalues is its index.
NextList ==
    /\ pc = "lists" \/ (pc = "rows" /\ rowid = Len(wbs))
    /\ lettervalues < Len(valueslists)
    /\ lettervalues' = lettervalues + 1
    /\ LET d == get_wordsbyscore(wordlist, valueslists[lettervalues'][2])
       IN  wbs' = sorted_items(d, DOMAIN d)
    /\ rowid' = 0
    /\ pc' = "rows"
    /\ UNCHANGED <<wordlist, printed,
                   lookupVars, scanVars, charsVars, fontVars, appVars>>

\* Lines 35-40 for a row that is printed.
PrintRow ==
    /\ pc = "rows" /\ rowid < Len(wbs)
    /\ ~is_skipped(rowid, wbs[rowid + 1][2])
    /\ printed' = Append(printed, printed_row(valueslists[lettervalues][1],
                                              wbs[rowid + 1][1], wbs[rowid + 1][2]))
    /\ rowid' = rowid + 1
    /\ UNCHANGED <<wordlist, lettervalues, wbs, pc,
                   lookupVars, scanVars, charsVars, fontVars, appVars>>

\* Lines 35-36 for a row that is skipped.
SkipRow ==
    /\ pc = "rows" /\ rowid < Len(wbs)
    /\ is_skipped(rowid, wbs[rowid + 1][2])
    /\ rowid' = rowid + 1
    /\ UNCHANGED <<wordlist, lettervalues, wbs, printed, pc,
                   lookupVars, scanVars, charsVars, fontVars, appVars>>

SpecPrint == InitPrint /\ [][NextList \/ PrintRow \/ SkipRow]_vars

\* The rows printed for the table whose loop has just ended.
RowsOfList ==
    LET name == valueslists[lettervalues][1]
        RECURSIVE Keep(_)
        Keep(rows) ==
            IF rows = <<>> THEN <<>>
            ELSE (IF rows[1].name = name THEN <<rows[1]>> ELSE <<>>) \o Keep(Tail(rows))
    IN  Keep(printed)

\* C9: when the loop over the groups of a table has ended, the groups
\* printed are in strictly falling score order; the group of the highest
\* score is printed whatever its size and any other group iff it has at most
\* 100 words; each printed group lists the first 100 of its words by rising
\* length, and its header gives the number of all its words.
C9_OutputLoop ==
    (pc = "rows" /\ rowid = Len(wbs)) =>
        LET rows == RowsOfList
        IN  /\ \A i \in 1..(Len(rows) - 1) : rows[i].score > rows[i + 1].score
            /\ \A j \in 1..(Len(wbs) - 1) : wbs[j][1] > wbs[j + 1][1]
            /\ \A j \in 1..Len(wbs) :
                  LET shown == \E i \in 1..Len(rows) : rows[i].score = wbs[j][1]
                  IN  IF j = 1 THEN shown
                      ELSE shown <=> Cardinality(wbs[j][2]) <= 100
            /\ \A i \in 1..Len(rows) :
                  \E j \in 1..Len(wbs) :
                     LET group == wbs[j][2]
                         listed == rows[i].listed
                     IN  /\ rows[i].score = wbs[j][1]
                         /\ rows[i].count = Cardinality(group)
                         /\ Len(listed) = Min(100, Cardinality(group))
                         /\ \A k \in 1..Len(listed) : listed[k] \in group
                         /\ \A k \in 1..(Len(listed) - 1) :
                               /\ Len(listed[k]) <= Len(listed[k + 1])
                               /\ \A m \in (k + 1)..Len(listed) : listed[k] # listed[m]
                         /\ \A w \in group :
                               (\A k \in 1..Len(listed) : listed[k] # w) =>
                                  Len(w) >= Len(listed[Len(listed)])

\* The loop has ended for a table whose top group of 150 words was printed
\* with 100 of them listed, whose next group of 150 words was suppressed and
\* whose last group of 100 words was printed in full.
C9_Witness ==
    /\ pc = "rows" /\ rowid = Len(wbs) /\ Len(wbs) = 3
    /\ Cardinality(wbs[1][2]) = 150
    /\ Cardinality(wbs[2][2]) = 150
    /\ Cardinality(wbs[3][2]) = 100
    /\ Len(RowsOfList) = 2
    /\ RowsOfList[1].count = 150 /\ Len(RowsOfList[1].listed) = 100
    /\ RowsOfList[2].count = 100 /\ Len(RowsOfList[2].listed) = 100

=============================================================================
